---------------------------- MODULE Spec2Model ----------------------------
(***************************************************************************)
(* vtkVolumeReconstructor (PlusLib, VolumeReconstruction): the wrapper     *)
(* that computes the output extent of a freehand reconstruction from a     *)
(* tracked frame list, pastes tracked frames into the volume and extracts  *)
(* the intensity channel; and the driver vtkVolumeReconstructorTest1.      *)
(*                                                                         *)
(* Numbers.  A C++ double is modelled by twice its value, so the ordinary  *)
(* doubles of the model are the even integers and every sum, difference    *)
(* and product of them is exact, as it is for small integral doubles.  The *)
(* one odd number, 1, is VTK_DOUBLE_MIN: the smallest positive double,     *)
(* greater than 0 and smaller than every other positive value.  A C++ int  *)
(* is an integer of IntMin..IntMax (the width is scaled down so that       *)
(* VTK_DOUBLE_MAX / spacing stays outside it, as it is in the program).    *)
(***************************************************************************)
EXTENDS Integers, Sequences, FiniteSets, TLC

\* ------------------------------------------------------------------ bounds
\* longest tracked frame list handed to the reconstructor
MaxFrames == 2
\* longest tracked frame list of a caller other than main (SpecApi)
MaxSessionFrames == 1
\* number of AddTrackedFrame calls made on one reconstructor object (SpecApi)
MaxInserts == 2
\* number of voxels the allocator can provide before it throws bad_alloc
MemVoxels == 24

\* ------------------------------------------------------- program constants
VTK_DOUBLE_MAX == 2000000
VTK_DOUBLE_MIN == 1
IntMax == 32767
IntMin == 0 - IntMax - 1

PLUS_SUCCESS == "PLUS_SUCCESS"
PLUS_FAIL == "PLUS_FAIL"

\* ------------------------------------------------------------- arithmetic
\* the double of the integer n
D(n) == 2 * n

\* a * b on doubles
DMul(a, b) == (a * b) \div 2

\* a - b on doubles: VTK_DOUBLE_MIN is absorbed by any other non-zero operand
DSub(a, b) ==
  IF a = VTK_DOUBLE_MIN /\ b # 0 /\ b # VTK_DOUBLE_MIN THEN 0 - b
  ELSE IF b = VTK_DOUBLE_MIN /\ a # 0 /\ a # VTK_DOUBLE_MIN THEN a
  ELSE a - b

\* the quotient a / b (b > 0) with its fraction dropped, towards zero
Trunc(a, b) == IF a >= 0 THEN a \div b ELSE 0 - ((0 - a) \div b)

\* floor(a / b + 0.5), b > 0: the nearest integer to the quotient a / b
RoundNearest(a, b) == (2 * a + b) \div (2 * b)

\* what int(x) may leave behind when x is outside the range of int
\* (undefined behaviour: x86 yields INT_MIN, saturating targets the nearer
\* end of the range, and a build is free to yield anything, 0 included)
IntOverflowOutcomes == {IntMin, 0, IntMax}

\* int( a / b ) for doubles a, b with b > 0: the set of values it can yield
IntOfQuotient(a, b) ==
  LET q == Trunc(a, b)
  IN  IF q >= IntMin /\ q <= IntMax THEN {q} ELSE IntOverflowOutcomes

\* --------------------------------------------------------------- matrices
Matrix(r1, r2, r3, r4) == <<r1, r2, r3, r4>>

IdentityMatrix ==
  Matrix(<<D(1), 0, 0, 0>>, <<0, D(1), 0, 0>>, <<0, 0, D(1), 0>>, <<0, 0, 0, D(1)>>)

ZeroMatrix ==
  Matrix(<<0, 0, 0, 0>>, <<0, 0, 0, 0>>, <<0, 0, 0, 0>>, <<0, 0, 0, 0>>)

\* the inner product of two 4-vectors of doubles
Dot4(r, c) == DMul(r[1], c[1]) + DMul(r[2], c[2]) + DMul(r[3], c[3]) + DMul(r[4], c[4])

\* column j of the matrix b
Column(b, j) == <<b[1][j], b[2][j], b[3][j], b[4][j]>>

\* the row r times the matrix b
RowTimes(r, b) ==
  <<Dot4(r, Column(b, 1)), Dot4(r, Column(b, 2)), Dot4(r, Column(b, 3)), Dot4(r, Column(b, 4))>>

\* vtkMatrix4x4::Multiply4x4(a, b, c): c = a * b
Multiply4x4(a, b) ==
  <<RowTimes(a[1], b), RowTimes(a[2], b), RowTimes(a[3], b), RowTimes(a[4], b)>>

\* vtkMatrix4x4::MultiplyPoint(in, out): out = m * in
MultiplyPoint(m, p) == <<Dot4(m[1], p), Dot4(m[2], p), Dot4(m[3], p), Dot4(m[4], p)>>

\* ----------------------------------------------------------------- inputs
\* A translation by (tx, ty, tz)
Translation(tx, ty, tz) ==
  Matrix(<<D(1), 0, 0, D(tx)>>, <<0, D(1), 0, D(ty)>>, <<0, 0, D(1), D(tz)>>,
         <<0, 0, 0, D(1)>>)

\* A quarter turn about z (x -> y, y -> -x) followed by a translation
RotZ(tx, ty, tz) ==
  Matrix(<<0, D(0 - 1), 0, D(tx)>>, <<D(1), 0, 0, D(ty)>>, <<0, 0, D(1), D(tz)>>,
         <<0, 0, 0, D(1)>>)

\* A quarter turn about x (y -> z, z -> -y) followed by a translation
RotX(tx, ty, tz) ==
  Matrix(<<D(1), 0, 0, D(tx)>>, <<0, 0, D(0 - 1), D(ty)>>, <<0, D(1), 0, D(tz)>>,
         <<0, 0, 0, D(1)>>)

\* Pixel size sx along the image's x axis, then a translation
Scaling(sx, tx, ty, tz) ==
  Matrix(<<D(sx), 0, 0, D(tx)>>, <<0, D(1), 0, D(ty)>>, <<0, 0, D(1), D(tz)>>,
         <<0, 0, 0, D(1)>>)

\* the tool poses (ToolToReference) a tracked frame can carry
Poses == {IdentityMatrix, Translation(0 - 2, 0, 0 - 1), RotZ(0, 1, 0), RotX(0, 0, 0 - 2)}

\* the calibration matrices (ImageToTool) a configuration can carry
Calibrations == {Scaling(2, 1, 0, 0), RotZ(0, 0, 0)}

\* the output spacings a configuration can carry
Spacings == {<<D(1), D(1), D(1)>>, <<D(2), D(2), D(2)>>}

\* vtkImageData of a frame: its extent and one scalar per pixel
Image(x0, x1, y0, y1, base) ==
  [extent |-> <<x0, x1, y0, y1, 0, 0>>,
   pix    |-> [p \in (x0..x1) \X (y0..y1) |-> base + (p[1] - x0) + 2 * (p[2] - y0)]]

Images == {Image(0, 1, 0, 1, 1), Image(1, 2, 0, 0, 5)}

\* TrackedFrame: the image and the default frame transform, when it has one
Frames ==
  [hasPose : {TRUE}, pose : Poses, ImageData : Images]
  \cup [hasPose : {FALSE}, pose : {ZeroMatrix}, ImageData : Images]

RECURSIVE SeqsUpTo(_, _)
SeqsUpTo(S, n) ==
  IF n = 0 THEN {<<>>}
  ELSE LET shorter == SeqsUpTo(S, n - 1)
       IN  shorter \cup {Append(s, x) : s \in {t \in shorter : Len(t) = n - 1}, x \in S}

\* vtkTrackedFrameList: the frame lists main can read from its sequence file
FrameLists == SeqsUpTo(Frames, MaxFrames)

\* the frame lists of the other callers
SessionFrameLists == SeqsUpTo(Frames, MaxSessionFrames)


\* Configuration files: the first element the reader misses ("none": complete),
\* the OutputSpacing of the reconstruction parameters, the calibration matrix
MissingElements == {"none", "USDataCollection", "Tracker", "Tool", "Calibration", "MatrixValue"}

Configs ==
  [missing : {"none"}, spacing : Spacings, MatrixValue : Calibrations]
  \cup [missing : MissingElements \ {"none"}, spacing : Spacings, MatrixValue : {ZeroMatrix}]

\* ------------------------------------------------------------------ state
VARIABLES
  ImageToToolTransform,  \* this->ImageToToolTransform (calibration matrix)
  OutputSpacing,         \* Reconstructor: output spacing, three doubles
  OutputExtent,          \* Reconstructor: output extent, six ints
  OutputOrigin,          \* Reconstructor: output origin, three doubles
  volume,                \* Reconstructor: the two-component reconstructed volume
  extent_Ref,            \* SetOutputExtentFromFrameList: its bounding box, as last left
  status,                \* PlusStatus returned by the last call
  imageToReference,      \* out-parameter of the last GetImageToReferenceTransformMatrix
  reconstructedVolume,   \* out-parameter of the last GetReconstructedVolume
  trackedFrameList,      \* the tracked frame list of the caller
  lastCall,              \* the last call made on the reconstructor and its frame
  insertSliceCalls,      \* number of Reconstructor->InsertSlice calls of the last call
  inserts,               \* SpecApi: number of AddTrackedFrame calls made so far
  pc,                    \* main: the statement it is at
  frameIndex,            \* main: the loop variable
  outputFrames,          \* main: whether --output-frame-file-name was given
  inputFrames,           \* main: the frames of the input sequence file
  extentStatus,          \* main: what SetOutputExtentFromFrameList returned (discarded)
  inserted,              \* main: indices of the frames handed to InsertSlice
  written                \* main: indices of the frames written with their pose

vars ==
  <<ImageToToolTransform, OutputSpacing, OutputExtent, OutputOrigin, volume,
    extent_Ref, status, imageToReference, reconstructedVolume, trackedFrameList,
    lastCall, insertSliceCalls, inserts, pc, frameIndex, outputFrames, inputFrames,
    extentStatus, inserted, written>>

reconstructorVars ==
  <<ImageToToolTransform, OutputSpacing, OutputExtent, OutputOrigin, volume,
    extent_Ref, status, imageToReference, reconstructedVolume, lastCall,
    insertSliceCalls>>

\* ------------------------------------------- the reconstruction filter
\* the voxel indices of an extent
VoxelsOf(e) == (e[1]..e[2]) \X (e[3]..e[4]) \X (e[5]..e[6])

\* a vtkImageData holding nothing
EmptyVolume ==
  [extent |-> <<0, 0 - 1, 0, 0 - 1, 0, 0 - 1>>, data |-> [v \in {} |-> <<0, 0>>]]

\* number of voxels of an extent, counted no further than limit + 1
VoxelCount(e, limit) ==
  LET dim(a) == IF e[2 * a] < e[2 * a - 1] THEN 0 ELSE e[2 * a] - e[2 * a - 1] + 1
      cap(n) == IF n > limit THEN limit + 1 ELSE n
  IN  IF dim(1) = 0 \/ dim(2) = 0 \/ dim(3) = 0 THEN 0
      ELSE cap(cap(cap(dim(1)) * cap(dim(2))) * cap(dim(3)))

\* vtkVolumeReconstructorFilter::ResetOutput: allocates the two-component volume
\* of the output extent, zeroed (intensity 0, contribution 0); throws bad_alloc
\* when the extent asks for more than the memory holds
ResetOutput(e) ==
  IF VoxelCount(e, MemVoxels) > MemVoxels
  THEN [result |-> "bad_alloc", volume |-> EmptyVolume]
  ELSE [result |-> PLUS_SUCCESS,
        volume |-> [extent |-> e, data |-> [v \in VoxelsOf(e) |-> <<0, 0>>]]]

\* the pixels of an image in scan order: rows of increasing y, x increasing in a row
PixelsInOrder(image) ==
  LET x0 == image.extent[1]
      x1 == image.extent[2]
      y0 == image.extent[3]
      y1 == image.extent[4]
      w  == x1 - x0 + 1
  IN  [n \in 1..(w * (y1 - y0 + 1)) |-> <<x0 + ((n - 1) % w), y0 + ((n - 1) \div w)>>]

\* destination voxel of the pixel p: (point - origin) / spacing, rounded to nearest
VoxelIndex(p, m, origin, spacing) ==
  LET point == MultiplyPoint(m, <<D(p[1]), D(p[2]), 0, D(1)>>)
  IN  <<RoundNearest(DSub(point[1], origin[1]), spacing[1]),
        RoundNearest(DSub(point[2], origin[2]), spacing[2]),
        RoundNearest(DSub(point[3], origin[3]), spacing[3])>>

\* the pixels of the slice that land inside the volume
PixelsInside(vol, image, m, origin, spacing) ==
  {p \in DOMAIN image.pix : VoxelIndex(p, m, origin, spacing) \in DOMAIN vol.data}

\* pastes the pixels ps[n..] into data: the last write wins, the count goes up
RECURSIVE PastePixels(_, _, _, _, _, _, _)
PastePixels(data, ps, n, image, m, origin, spacing) ==
  IF n > Len(ps) THEN data
  ELSE LET v == VoxelIndex(ps[n], m, origin, spacing)
           next == IF v \in DOMAIN data
                   THEN [data EXCEPT ![v] = <<image.pix[ps[n]], data[v][2] + 1>>]
                   ELSE data
       IN  PastePixels(next, ps, n + 1, image, m, origin, spacing)

\* an affine transform that can place a pixel: last row 0 0 0 1
WellFormed(m) == m[4] = <<0, 0, 0, D(1)>>

\* vtkVolumeReconstructorFilter::InsertSlice
InsertSlice(vol, image, m, origin, spacing) ==
  IF ~WellFormed(m) THEN [result |-> PLUS_FAIL, volume |-> vol]
  ELSE [result |-> PLUS_SUCCESS,
        volume |-> [vol EXCEPT !.data =
                      PastePixels(vol.data, PixelsInOrder(image), 1, image, m, origin, spacing)]]

\* vtkImageExtractComponents with SetComponents(c): component c of every voxel
ExtractComponents(vol, c) ==
  [extent |-> vol.extent, data |-> [v \in DOMAIN vol.data |-> <<vol.data[v][c + 1]>>]]

\* TrackedFrame::GetDefaultFrameTransform: whether the frame has a transform
GetDefaultFrameTransform(frame) == frame.hasPose

\* ------------------------------------------- vtkVolumeReconstructor
\* the product taken in the other order: ImageToTool * ToolToReference
ImageToReferenceCommuted(toolToReference, imageToTool) ==
  Multiply4x4(imageToTool, toolToReference)

\* GetImageToReferenceTransformMatrix(vtkMatrix4x4*, vtkMatrix4x4*)
ImageToReferenceOfTool(toolToReference, imageToTool) ==
  Multiply4x4(toolToReference, imageToTool)

\* GetImageToReferenceTransformMatrix(TrackedFrame*, vtkMatrix4x4*); out is the
\* matrix the caller passed in, left as it is on failure
GetImageToReferenceTransformMatrix(frame, imageToTool, out) ==
  IF ~GetDefaultFrameTransform(frame)
  THEN [status |-> PLUS_FAIL, matrix |-> out]
  ELSE [status |-> PLUS_SUCCESS,
        matrix |-> ImageToReferenceOfTool(frame.pose, imageToTool)]

\* the four corners of the image, in the order c0, c1, c2, c3
CornersOf(image) ==
  LET fe == image.extent
  IN  << <<D(fe[1]), D(fe[3]), 0, D(1)>>, <<D(fe[1]), D(fe[4]), 0, D(1)>>,
         <<D(fe[2]), D(fe[3]), 0, D(1)>>, <<D(fe[2]), D(fe[4]), 0, D(1)>> >>

\* if ( corner < min ) min = corner
Lower(c, e) == IF c < e THEN c ELSE e

\* if ( corner > max ) max = corner
Upper(c, e) == IF c > e THEN c ELSE e

\* the box ext expanded to hold the point: min in the odd, max in the even slots
ExpandExtent(ext, corner_Ref) ==
  <<Lower(corner_Ref[1], ext[1]), Upper(corner_Ref[1], ext[2]),
    Lower(corner_Ref[2], ext[3]), Upper(corner_Ref[2], ext[4]),
    Lower(corner_Ref[3], ext[5]), Upper(corner_Ref[3], ext[6])>>

\* AddImageToExtent
AddImageToExtent(image, mImageToReference, ext) ==
  LET cs == CornersOf(image)
      e1 == ExpandExtent(ext, MultiplyPoint(mImageToReference, cs[1]))
      e2 == ExpandExtent(e1, MultiplyPoint(mImageToReference, cs[2]))
      e3 == ExpandExtent(e2, MultiplyPoint(mImageToReference, cs[3]))
  IN  ExpandExtent(e3, MultiplyPoint(mImageToReference, cs[4]))

\* the bounding box SetOutputExtentFromFrameList starts from
InitialExtent ==
  <<VTK_DOUBLE_MAX, VTK_DOUBLE_MIN, VTK_DOUBLE_MAX, VTK_DOUBLE_MIN,
    VTK_DOUBLE_MAX, VTK_DOUBLE_MIN>>

\* the frame loop of SetOutputExtentFromFrameList, from frame n on
RECURSIVE FoldFrames(_, _, _, _)
FoldFrames(list, n, imageToTool, ext) ==
  IF n > Len(list) THEN ext
  ELSE LET r == GetImageToReferenceTransformMatrix(list[n], imageToTool, IdentityMatrix)
       IN  IF r.status # PLUS_SUCCESS
           THEN FoldFrames(list, n + 1, imageToTool, ext)
           ELSE FoldFrames(list, n + 1, imageToTool,
                           AddImageToExtent(list[n].ImageData, r.matrix, ext))

\* the upper index of the output extent along axis a (1, 2, 3):
\* int( ( extent_Ref[max] - extent_Ref[min] ) / outputSpacing[a] ), as a set
OutputExtentUpper(ext, spacing, a) ==
  IntOfQuotient(DSub(ext[2 * a], ext[2 * a - 1]), spacing[a])

\* the rest of SetOutputExtentFromFrameList once the output extent is computed:
\* SetOutputExtent, SetOutputOrigin, ResetOutput and the returned status
ApplyOutputExtent(ext, outputExtent) ==
  LET r == ResetOutput(outputExtent)
  IN  [OutputExtent |-> outputExtent,
       OutputOrigin |-> <<ext[1], ext[3], ext[5]>>,
       volume       |-> r.volume,
       status       |-> IF r.result = PLUS_SUCCESS THEN PLUS_SUCCESS ELSE PLUS_FAIL]

\* AddTrackedFrame without its test of the returned status: the slice is inserted
\* with whatever the matrix holds
AddTrackedFrameUnchecked(frame, imageToTool, vol, origin, spacing) ==
  LET r == GetImageToReferenceTransformMatrix(frame, imageToTool, IdentityMatrix)
      s == InsertSlice(vol, frame.ImageData, r.matrix, origin, spacing)
  IN  [status |-> s.result, volume |-> s.volume, insertSliceCalls |-> 1]

\* AddTrackedFrame handing the tool pose, not the image-to-reference matrix, to
\* InsertSlice
AddTrackedFrameUncalibrated(frame, imageToTool, vol, origin, spacing) ==
  LET r == GetImageToReferenceTransformMatrix(frame, imageToTool, IdentityMatrix)
  IN  IF r.status # PLUS_SUCCESS
      THEN [status |-> PLUS_FAIL, volume |-> vol, insertSliceCalls |-> 0]
      ELSE LET s == InsertSlice(vol, frame.ImageData, frame.pose, origin, spacing)
           IN  [status |-> s.result, volume |-> s.volume, insertSliceCalls |-> 1]

\* AddTrackedFrame calling ResetOutput itself before it inserts the slice
AddTrackedFrameResetting(frame, imageToTool, vol, origin, spacing) ==
  LET r == GetImageToReferenceTransformMatrix(frame, imageToTool, IdentityMatrix)
  IN  IF r.status # PLUS_SUCCESS
      THEN [status |-> PLUS_FAIL, volume |-> vol, insertSliceCalls |-> 0]
      ELSE LET s == InsertSlice(ResetOutput(vol.extent).volume, frame.ImageData, r.matrix,
                                origin, spacing)
           IN  [status |-> s.result, volume |-> s.volume, insertSliceCalls |-> 1]

\* AddTrackedFrame: the returned status, the volume it leaves and the number of
\* InsertSlice calls it made
AddTrackedFrameResult(frame, imageToTool, vol, origin, spacing) ==
  LET r == GetImageToReferenceTransformMatrix(frame, imageToTool, IdentityMatrix)
  IN  IF r.status # PLUS_SUCCESS
      THEN [status |-> PLUS_FAIL, volume |-> vol, insertSliceCalls |-> 0]
      ELSE LET s == InsertSlice(vol, frame.ImageData, r.matrix, origin, spacing)
           IN  [status |-> s.result, volume |-> s.volume, insertSliceCalls |-> 1]

\* GetReconstructedVolume keeping component 1, the mask
ExtractMaskComponent(vol) == ExtractComponents(vol, 1)

\* GetReconstructedVolume: the volume copied into the caller's image
ExtractReconstructedVolume(vol) == ExtractComponents(vol, 0)

\* ------------------------------------------------------------- operations
Call(op, frames) == [op |-> op, frames |-> frames]

ReadConfiguration(config) ==
  /\ OutputSpacing' = config.spacing
  /\ IF config.missing = "none"
     THEN ImageToToolTransform' = config.MatrixValue /\ status' = PLUS_SUCCESS
     ELSE UNCHANGED ImageToToolTransform /\ status' = PLUS_FAIL
  /\ lastCall' = Call("ReadConfiguration", <<>>)
  /\ insertSliceCalls' = 0
  /\ UNCHANGED <<OutputExtent, OutputOrigin, volume, extent_Ref, imageToReference,
                 reconstructedVolume>>

SetOutputExtentFromFrameList(list) ==
  \E ext \in {FoldFrames(list, 1, ImageToToolTransform, InitialExtent)} :
      \E e1 \in OutputExtentUpper(ext, OutputSpacing, 1),
         e3 \in OutputExtentUpper(ext, OutputSpacing, 2),
         e5 \in OutputExtentUpper(ext, OutputSpacing, 3) :
        \E r \in {ApplyOutputExtent(ext, <<0, e1, 0, e3, 0, e5>>)} :
            /\ extent_Ref' = ext
            /\ OutputExtent' = r.OutputExtent
            /\ OutputOrigin' = r.OutputOrigin
            /\ volume' = r.volume
            /\ status' = r.status
            /\ lastCall' = Call("SetOutputExtentFromFrameList", list)
            /\ insertSliceCalls' = 0
            /\ UNCHANGED <<ImageToToolTransform, OutputSpacing, imageToReference,
                           reconstructedVolume>>

AddTrackedFrame(frame) ==
  \E r \in {AddTrackedFrameResult(frame, ImageToToolTransform, volume, OutputOrigin,
                                   OutputSpacing)} :
      /\ volume' = r.volume
      /\ status' = r.status
      /\ insertSliceCalls' = r.insertSliceCalls
      /\ lastCall' = Call("AddTrackedFrame", <<frame>>)
      /\ UNCHANGED <<ImageToToolTransform, OutputSpacing, OutputExtent, OutputOrigin,
                     extent_Ref, imageToReference, reconstructedVolume>>

GetImageToReferenceTransform(frame) ==
  \E r \in {GetImageToReferenceTransformMatrix(frame, ImageToToolTransform,
                                                IdentityMatrix)} :
      /\ imageToReference' = r.matrix
      /\ status' = r.status
      /\ lastCall' = Call("GetImageToReferenceTransformMatrix", <<frame>>)
      /\ insertSliceCalls' = 0
      /\ UNCHANGED <<ImageToToolTransform, OutputSpacing, OutputExtent, OutputOrigin,
                     volume, extent_Ref, reconstructedVolume>>

GetReconstructedVolume ==
  /\ reconstructedVolume' = ExtractReconstructedVolume(volume)
  /\ status' = PLUS_SUCCESS
  /\ lastCall' = Call("GetReconstructedVolume", <<>>)
  /\ insertSliceCalls' = 0
  /\ UNCHANGED <<ImageToToolTransform, OutputSpacing, OutputExtent, OutputOrigin,
                 volume, extent_Ref, imageToReference>>

\* the reconstructor as its constructor (and the filter's) leaves it
InitReconstructor ==
  /\ ImageToToolTransform = IdentityMatrix
  /\ OutputSpacing = <<D(1), D(1), D(1)>>
  /\ OutputExtent = <<0, 0, 0, 0, 0, 0>>
  /\ OutputOrigin = <<0, 0, 0>>
  /\ volume = EmptyVolume
  /\ extent_Ref = InitialExtent
  /\ status = PLUS_SUCCESS
  /\ imageToReference = IdentityMatrix
  /\ reconstructedVolume = ExtractComponents(EmptyVolume, 0)
  /\ lastCall = Call("vtkVolumeReconstructor", <<>>)
  /\ insertSliceCalls = 0

\* ------------------------- Spec: main of vtkVolumeReconstructorTest1
Init ==
  /\ InitReconstructor
  /\ trackedFrameList = <<>>
  /\ inserts = 0
  /\ pc = "ReadConfiguration"
  /\ frameIndex = 1
  /\ outputFrames \in BOOLEAN
  /\ inputFrames = <<>>
  /\ extentStatus = "none"
  /\ inserted = {}
  /\ written = {}

\* reconstructor->ReadConfiguration(configRead); the status is discarded
MainReadConfiguration ==
  /\ pc = "ReadConfiguration"
  /\ \E config \in Configs : ReadConfiguration(config)
  /\ pc' = "ReadFromSequenceMetafile"
  /\ UNCHANGED <<trackedFrameList, inserts, frameIndex, outputFrames, inputFrames,
                 extentStatus, inserted, written>>

\* trackedFrameList->ReadFromSequenceMetafile(inputImgSeqFileName)
MainReadFromSequenceMetafile ==
  /\ pc = "ReadFromSequenceMetafile"
  /\ \E list \in FrameLists : trackedFrameList' = list /\ inputFrames' = list
  /\ pc' = "SetOutputExtentFromFrameList"
  /\ UNCHANGED reconstructorVars
  /\ UNCHANGED <<inserts, frameIndex, outputFrames, extentStatus, inserted, written>>

\* what follows the body of the frame loop for the index i
AfterFrame(i) == IF i > Len(trackedFrameList) THEN "GetReconstructedVolume" ELSE "AddTrackedFrame"

\* reconstructor->SetOutputExtentFromFrameList(trackedFrameList); the status is
\* discarded, and the frame loop is entered
MainSetOutputExtentFromFrameList ==
  /\ pc = "SetOutputExtentFromFrameList"
  /\ SetOutputExtentFromFrameList(trackedFrameList)
  /\ extentStatus' = status'
  /\ frameIndex' = 1
  /\ pc' = AfterFrame(1)
  /\ UNCHANGED <<trackedFrameList, inserts, outputFrames, inputFrames, inserted, written>>

\* reconstructor->AddTrackedFrame(frame); the status is discarded
MainAddTrackedFrame ==
  /\ pc = "AddTrackedFrame"
  /\ AddTrackedFrame(trackedFrameList[frameIndex])
  /\ inserted' = IF insertSliceCalls' > 0 THEN inserted \cup {frameIndex} ELSE inserted
  /\ IF outputFrames
     THEN pc' = "WriteToFile" /\ UNCHANGED frameIndex
     ELSE frameIndex' = frameIndex + 1 /\ pc' = AfterFrame(frameIndex + 1)
  /\ UNCHANGED <<trackedFrameList, inserts, outputFrames, inputFrames, extentStatus,
                 written>>

\* the frame export: the pose is resolved again and the frame written with it,
\* or the frame is skipped (continue)
MainWriteToFile ==
  /\ pc = "WriteToFile"
  /\ GetImageToReferenceTransform(trackedFrameList[frameIndex])
  /\ written' = IF status' = PLUS_SUCCESS THEN written \cup {frameIndex} ELSE written
  /\ frameIndex' = frameIndex + 1
  /\ pc' = AfterFrame(frameIndex + 1)
  /\ UNCHANGED <<trackedFrameList, inserts, outputFrames, inputFrames, extentStatus,
                 inserted>>

\* trackedFrameList->Clear(); reconstructor->GetReconstructedVolume(...); the
\* volume is written and main returns
MainGetReconstructedVolume ==
  /\ pc = "GetReconstructedVolume"
  /\ trackedFrameList' = <<>>
  /\ GetReconstructedVolume
  /\ pc' = "Done"
  /\ UNCHANGED <<inserts, frameIndex, outputFrames, inputFrames, extentStatus, inserted,
                 written>>

Next ==
  \/ MainReadConfiguration
  \/ MainReadFromSequenceMetafile
  \/ MainSetOutputExtentFromFrameList
  \/ MainAddTrackedFrame
  \/ MainWriteToFile
  \/ MainGetReconstructedVolume

Spec == Init /\ [][Next]_vars

\* ------------- SpecApi: a caller other than main.  It reads the configuration
\* first, if at all; sets the output extent once; adds frames of its choosing,
\* MaxInserts at most, before or after that; stops when it likes and gets the volume
InitApi ==
  /\ InitReconstructor
  /\ trackedFrameList = <<>>
  /\ inserts = 0
  /\ pc = "new"
  /\ frameIndex = 1
  /\ outputFrames = FALSE
  /\ inputFrames = <<>>
  /\ extentStatus = "none"
  /\ inserted = {}
  /\ written = {}

CallReadConfiguration ==
  /\ pc = "new"
  /\ pc' = "configured"
  /\ \E config \in Configs : ReadConfiguration(config)
  /\ UNCHANGED <<trackedFrameList, inserts, frameIndex, outputFrames, inputFrames,
                 extentStatus, inserted, written>>

CallSetOutputExtentFromFrameList ==
  /\ pc \in {"new", "configured"}
  /\ pc' = "session"
  /\ \E list \in SessionFrameLists :
       /\ trackedFrameList' = list
       /\ SetOutputExtentFromFrameList(list)
  /\ UNCHANGED <<inserts, frameIndex, outputFrames, inputFrames, extentStatus, inserted,
                 written>>

CallAddTrackedFrame ==
  /\ pc # "Done"
  /\ inserts < MaxInserts
  /\ inserts' = inserts + 1
  /\ pc' = IF pc = "new" THEN "configured" ELSE pc
  /\ \E frame \in Frames : AddTrackedFrame(frame)
  /\ UNCHANGED <<trackedFrameList, frameIndex, outputFrames, inputFrames, extentStatus,
                 inserted, written>>

CallGetReconstructedVolume ==
  /\ pc # "Done"
  /\ pc' = "Done"
  /\ GetReconstructedVolume
  /\ UNCHANGED <<trackedFrameList, inserts, frameIndex, outputFrames, inputFrames,
                 extentStatus, inserted, written>>

NextApi ==
  \/ CallReadConfiguration
  \/ CallSetOutputExtentFromFrameList
  \/ CallAddTrackedFrame
  \/ CallGetReconstructedVolume

SpecApi == InitApi /\ [][NextApi]_vars

\* ================================================================ properties
\* the frames of a list that have a pose
ValidFrames(list) == {n \in 1..Len(list) : list[n].hasPose}

\* the matrix product a * b, entry by entry
MatrixProduct(a, b) ==
  [i \in 1..4 |-> [j \in 1..4 |->
     (a[i][1] * b[1][j] + a[i][2] * b[2][j] + a[i][3] * b[3][j] + a[i][4] * b[4][j]) \div 2]]

\* the reference-space corner points of the frames of a list that have a pose
CornerPoints(list, imageToTool) ==
  {MultiplyPoint(MatrixProduct(list[n].pose, imageToTool), CornersOf(list[n].ImageData)[k]) :
     n \in ValidFrames(list), k \in 1..4}

SetMin(S) == CHOOSE x \in S : \A y \in S : x <= y
SetMax(S) == CHOOSE x \in S : \A y \in S : x >= y

\* coordinate a of the points
Coordinates(points, a) == {p[a] : p \in points}

\* sum of the contribution channel over the voxels S
RECURSIVE SumOfCounts(_, _)
SumOfCounts(data, S) ==
  IF S = {} THEN 0
  ELSE LET v == CHOOSE x \in S : TRUE
       IN  data[v][2] + SumOfCounts(data, S \ {v})

TotalCount(vol) == SumOfCounts(vol.data, DOMAIN vol.data)

\* the last call was SetOutputExtentFromFrameList (its list: lastCall.frames)
ExtentJustSet == lastCall.op = "SetOutputExtentFromFrameList"

\* C1: SetOutputExtentFromFrameList on a list with no frame that has a pose
\* reports PLUS_FAIL, and sets no output extent and allocates no volume.
C1_EmptyExtentIsAnError ==
  [][(pc = "SetOutputExtentFromFrameList" /\ ValidFrames(trackedFrameList) = {})
       => (status' = PLUS_FAIL /\ OutputExtent' = OutputExtent /\ volume' = volume)]_vars

C3_ImageToReferenceIsToolTimesImage ==
  lastCall.op = "GetImageToReferenceTransformMatrix" =>
     LET frame == lastCall.frames[1]
     IN  IF frame.hasPose
         THEN /\ status = PLUS_SUCCESS
              /\ imageToReference = MatrixProduct(frame.pose, ImageToToolTransform)
         ELSE status = PLUS_FAIL

\* C3 witness: the pose of a frame with a pose was resolved, and the pose and the
\* calibration do not commute.
C3_Witness ==
  /\ lastCall.op = "GetImageToReferenceTransformMatrix"
  /\ lastCall.frames[1].hasPose
  /\ status = PLUS_SUCCESS
  /\ MatrixProduct(lastCall.frames[1].pose, ImageToToolTransform)
       # MatrixProduct(ImageToToolTransform, lastCall.frames[1].pose)

\* C4: after a successful SetOutputExtentFromFrameList every axis of the output
\* extent runs from 0 to floor((max - min) / spacing), which is not negative, and
\* the output origin is the minimum of the bounding box.
C4_ExtentIsFloorOfBox ==
  (ExtentJustSet /\ status = PLUS_SUCCESS) =>
     \A a \in 1..3 :
        /\ OutputExtent[2 * a - 1] = 0
        /\ OutputExtent[2 * a] >= 0
        /\ ValidFrames(lastCall.frames) # {} =>
             LET cs == Coordinates(CornerPoints(lastCall.frames, ImageToToolTransform), a)
             IN  /\ OutputExtent[2 * a] = (SetMax(cs) - SetMin(cs)) \div OutputSpacing[a]
                 /\ OutputOrigin[a] = SetMin(cs)

\* C5: in main's frame loop, AddTrackedFrame on a frame without a pose fails, calls
\* no InsertSlice and leaves the volume as it was; the loop goes on, and when main
\* is done every frame that has a pose has been handed to InsertSlice.
C5_MissingPoseIsSkipped ==
  /\ [][(pc = "AddTrackedFrame" /\ ~trackedFrameList[frameIndex].hasPose)
          => (status' = PLUS_FAIL /\ insertSliceCalls' = 0 /\ volume' = volume
              /\ inserted' = inserted)]_vars
  /\ [](pc = "Done" => inserted = ValidFrames(inputFrames))

\* C5 witness: main is done, and a frame with a pose that came after a frame
\* without one was inserted and left its mark in the volume.
C5_Witness ==
  /\ pc = "Done"
  /\ \E i, j \in 1..Len(inputFrames) :
       i < j /\ ~inputFrames[i].hasPose /\ inputFrames[j].hasPose /\ j \in inserted
  /\ TotalCount(volume) > 0

\* C6: once SetOutputExtentFromFrameList has failed, main adds no frame and gets
\* no volume (stated for the lists that hold a frame with a pose, where the failure
\* is the allocation's).
C6_FailureAbortsReconstruction ==
  (extentStatus = PLUS_FAIL /\ ValidFrames(inputFrames) # {}) =>
     (lastCall.op \notin {"AddTrackedFrame", "GetReconstructedVolume"} /\ pc # "Done")

\* C7: every corner of every frame with a pose maps, by round-to-nearest of
\* (point - origin) / spacing, to an index inside the output extent, and the
\* corners on the minimum and the maximum of the box map to index 0 and to the
\* upper index of the extent (stated for the axes whose upper index is
\* floor((max - min) / spacing) of the corners' own minimum and maximum).
C7_CornersLandOnExtent ==
  (ExtentJustSet /\ status = PLUS_SUCCESS) =>
     \A a \in 1..3 :
        LET cs == Coordinates(CornerPoints(lastCall.frames, ImageToToolTransform), a)
            index(c) == RoundNearest(DSub(c, OutputOrigin[a]), OutputSpacing[a])
        IN  \A c \in cs :
               OutputExtent[2 * a] = (SetMax(cs) - SetMin(cs)) \div OutputSpacing[a] =>
               /\ index(c) >= 0
               /\ index(c) <= OutputExtent[2 * a]
               /\ c = SetMin(cs) => index(c) = 0
               /\ c = SetMax(cs) => index(c) = OutputExtent[2 * a]

\* a step that is a GetReconstructedVolume call
GetsVolume == pc # "Done" /\ pc' = "Done"

\* C8: GetReconstructedVolume returns a one-component volume of the extent of the
\* reconstruction volume, each voxel holding component 0 (the intensity) of that
\* voxel, and leaves the reconstruction volume as it was.
C8_OutputIsIntensityChannel ==
  [][GetsVolume =>
       /\ reconstructedVolume'.extent = volume.extent
       /\ DOMAIN reconstructedVolume'.data = DOMAIN volume.data
       /\ \A v \in DOMAIN volume.data :
             reconstructedVolume'.data[v] = <<volume.data[v][1]>>
       /\ volume' = volume]_vars

\* C8 witness: the volume was got after two insertions, and holds a voxel whose
\* intensity differs from its contribution count.
C8_Witness ==
  /\ pc = "Done"
  /\ lastCall.op = "GetReconstructedVolume"
  /\ inserts = 2
  /\ \E v \in DOMAIN volume.data :
       volume.data[v][2] > 0 /\ volume.data[v][1] # volume.data[v][2]

\* a step that is an AddTrackedFrame call of SpecApi, and the frame it adds
AddsFrame == inserts' = inserts + 1
AddedFrame == lastCall'.frames[1]

\* the step adds the slice that the call before it added successfully
AddsSameSliceAgain ==
  /\ AddsFrame
  /\ lastCall.op = "AddTrackedFrame"
  /\ lastCall.frames = lastCall'.frames
  /\ status = PLUS_SUCCESS

\* C9 as claimed: adding a slice a second time leaves every intensity as it was,
\* and each successful insertion raises the contribution count by the number of
\* pixels of the slice (stated for a volume allocated from a list that holds a
\* frame with a pose).
C9_CountGrowsBySlicePixels ==
  [][/\ AddsSameSliceAgain =>
          \A v \in DOMAIN volume.data : volume'.data[v][1] = volume.data[v][1]
     /\ (AddsFrame /\ status' = PLUS_SUCCESS /\ DOMAIN volume.data # {}
         /\ ValidFrames(trackedFrameList) # {}) =>
          TotalCount(volume') = TotalCount(volume)
                                + Cardinality(DOMAIN AddedFrame.ImageData.pix)]_vars

\* C9 amended: adding a slice a second time leaves every intensity as it was, and
\* each successful insertion raises the contribution count by the number of pixels
\* of the slice that land inside the volume.
C9_CountGrowsByPixelsInside ==
  [][/\ AddsSameSliceAgain =>
          \A v \in DOMAIN volume.data : volume'.data[v][1] = volume.data[v][1]
     /\ (AddsFrame /\ status' = PLUS_SUCCESS) =>
          TotalCount(volume') = TotalCount(volume)
             + Cardinality(PixelsInside(volume, AddedFrame.ImageData,
                             MatrixProduct(AddedFrame.pose, ImageToToolTransform),
                             OutputOrigin, OutputSpacing))]_vars

\* C9 witness: the volume is what two insertions of the last added slice make of
\* the freshly allocated volume, and the slice lies partly inside, partly outside.
C9_Witness ==
  /\ lastCall.op = "AddTrackedFrame"
  /\ inserts = 2
  /\ status = PLUS_SUCCESS
  /\ LET frame  == lastCall.frames[1]
         m      == MatrixProduct(frame.pose, ImageToToolTransform)
         inside == Cardinality(PixelsInside(volume, frame.ImageData, m, OutputOrigin,
                                            OutputSpacing))
     IN  /\ frame.hasPose
         /\ inside > 0
         /\ inside < Cardinality(DOMAIN frame.ImageData.pix)
         /\ TotalCount(volume) = 2 * inside

\* C10: no AddTrackedFrame call, failed or not, lowers the contribution channel of
\* a voxel.
C10_ContributionNeverDecreases ==
  [][AddsFrame =>
       /\ DOMAIN volume'.data = DOMAIN volume.data
       /\ \A v \in DOMAIN volume.data : volume'.data[v][2] >= volume.data[v][2]]_vars

\* C10 witness: after two AddTrackedFrame calls a voxel holds one contribution and
\* another holds two.
C10_Witness ==
  /\ lastCall.op = "AddTrackedFrame"
  /\ inserts = 2
  /\ \E v, w \in DOMAIN volume.data : volume.data[v][2] = 1 /\ volume.data[w][2] = 2

=============================================================================
